---- MODULE Spec2Model ----
(***************************************************************************)
(* The TIMSS dashboard script streamlit_app.py as a state machine.  One    *)
(* run of the script is a render cycle: load the student table (or merge   *)
(* and score the raw tables), load the teacher and school tables, run the  *)
(* routine of the selected page, write the sidebar footer.  The framework  *)
(* re-executes the script on every sidebar selection.                      *)
(*                                                                         *)
(* Column names and file paths are sequences of tokens whose concatenation *)
(* is the Python string, so that startswith / endswith / replace / the     *)
(* "_ach" suffix are computed, not looked up.  Every numeric cell is a     *)
(* fraction <<numerator, denominator>> in lowest terms; the missing value  *)
(* (NaN) is the fraction 0/0, which is what the mean of no values is.      *)
(***************************************************************************)
EXTENDS Integers, Sequences, FiniteSets, TLC

VARIABLES disk, page, pc, df_ach, df_bg, student_data, teacher_data,
          school_data, out, metrics, gender_stats, exc, ret, called

vars == <<disk, page, pc, df_ach, df_bg, student_data, teacher_data,
          school_data, out, metrics, gender_stats, exc, ret, called>>

\* Largest number of rows of a generated input table.
MaxRows == 2

----------------------------------------------------------------------------
\* Numbers

NaN == <<0, 0>>

IsNaN(c) == c[2] = 0

RECURSIVE GCD(_, _)
GCD(a, b) == IF b = 0 THEN a ELSE GCD(b, a % b)

\* n / d as a cell; division by zero gives NaN (numpy's 0/0).
Rat(n, d) == IF d = 0 THEN NaN ELSE LET g == GCD(n, d) IN <<n \div g, d \div g>>

Num(n) == <<n, 1>>

Add(a, b) == Rat(a[1] * b[2] + b[1] * a[2], a[2] * b[2])

Less(a, b) == a[1] * b[2] < b[1] * a[2]

Range(s) == {s[i] : i \in 1..Len(s)}

NotNaN(c) == ~IsNaN(c)

RECURSIVE SumSeq(_)
SumSeq(s) == IF s = <<>> THEN Num(0) ELSE Add(Head(s), SumSeq(Tail(s)))

RECURSIVE Insert(_, _)
Insert(c, s) ==
    IF s = <<>> THEN <<c>>
    ELSE IF Less(Head(s), c) THEN <<Head(s)>> \o Insert(c, Tail(s))
    ELSE <<c>> \o s

RECURSIVE Sorted(_)
Sorted(s) == IF s = <<>> THEN <<>> ELSE Insert(Head(s), Sorted(Tail(s)))

\* A mean that is 0 when there is nothing to average.
SeriesMeanZeroWhenEmpty(s) ==
    LET present == SelectSeq(s, NotNaN)
        t == SumSeq(present)
    IN  IF present = <<>> THEN Num(0) ELSE Rat(t[1], t[2] * Len(present))

\* Series.mean(): missing values are skipped, the mean of nothing is NaN.
SeriesMean(s) ==
    LET present == SelectSeq(s, NotNaN)
        t == SumSeq(present)
    IN  Rat(t[1], t[2] * Len(present))

\* Series.median(): the middle of the sorted non-missing values.
SeriesMedian(s) ==
    LET v == Sorted(SelectSeq(s, NotNaN))
        n == Len(v)
    IN  IF n = 0 THEN NaN
        ELSE IF n % 2 = 1 THEN v[(n + 1) \div 2]
        ELSE LET t == Add(v[n \div 2], v[n \div 2 + 1]) IN Rat(t[1], t[2] * 2)

\* Series.size: the number of values, missing or not.
SeriesSize(s) == Len(s)

\* Series.count(): the number of non-missing values.
SeriesCount(s) == Len(SelectSeq(s, NotNaN))

----------------------------------------------------------------------------
\* Names

IDSTUD == <<"ID", "STUD">>
IDBOOK == <<"ID", "BOOK">>
BSMMAT01 == <<"BSMMAT", "01">>
BSMMAT02 == <<"BSMMAT", "02">>
ITSEX == <<"ITSEX">>
BSBG01 == <<"BSBG01">>
BSBG04 == <<"BSBG04">>
BSBGSLM == <<"BSBGSLM">>
BSBGSCM == <<"BSBGSCM">>
math_score == <<"math_score">>
BTBG01 == <<"BTBG01">>
BTBG04 == <<"BTBG04">>
BCBG05A == <<"BCBG05A">>
BCBG03A == <<"BCBG03A">>
BCBGEAS == <<"BCBGEAS">>

\* str.startswith / str.endswith on a name whose first / last token is the
\* prefix / suffix when it has it.
StartsWith(name, prefix) == Len(name) > 0 /\ name[1] = prefix

EndsWith(name, suffix) == Len(name) > 0 /\ name[Len(name)] = suffix

\* str.replace(old, new)
Replace(name, old, new) == [i \in 1..Len(name) |-> IF name[i] = old THEN new ELSE name[i]]

----------------------------------------------------------------------------
\* Tables (DataFrame); None is the absent result of load_data.

None == [isNone |-> TRUE, columns |-> {}, rows |-> <<>>]

Table(cols, rows) == [isNone |-> FALSE, columns |-> cols, rows |-> rows]

\* df[col] as a sequence of cells
Column(df, col) == [i \in 1..Len(df.rows) |-> df.rows[i][col]]

\* df.dropna(subset=[col])
HasValue(df, col, i) == ~IsNaN(df.rows[i][col])

RECURSIVE Pick(_, _, _)
Pick(rows, keep, i) ==
    IF i > Len(rows) THEN <<>>
    ELSE (IF i \in keep THEN <<rows[i]>> ELSE <<>>) \o Pick(rows, keep, i + 1)

DropNa(df, col) ==
    Table(df.columns, Pick(df.rows, {i \in 1..Len(df.rows) : HasValue(df, col, i)}, 1))

----------------------------------------------------------------------------
\* Files

StudentCsv == <<"../data/processed_student_data", ".csv">>
AchSav == <<"../orig/SPSS/bsairlm8", ".sav">>
BgSav == <<"../orig/SPSS/bsgirlm8", ".sav">>
TeacherCsv == <<"../data/teacher_data", ".csv">>
TeacherSav == <<"../orig/SPSS/btmirlm8", ".sav">>
SchoolCsv == <<"../data/school_data", ".csv">>
SchoolSav == <<"../orig/SPSS/bcgirlm8", ".sav">>

Paths == {StudentCsv, AchSav, BgSav, TeacherCsv, TeacherSav, SchoolCsv, SchoolSav}

\* A file of the disk: whether it exists, whether its reader succeeds on it,
\* and the table it holds.
File(t) == [exists |-> TRUE, readable |-> TRUE, data |-> t]

Corrupt == [exists |-> TRUE, readable |-> FALSE, data |-> None]

Absent == [exists |-> FALSE, readable |-> FALSE, data |-> None]

FileAt(d, path) == IF path \in DOMAIN d THEN d[path] ELSE Absent

\* os.path.exists
Exists(d, path) == FileAt(d, path).exists

\* pd.read_csv / pyreadstat.read_sav: the table, or an exception
Read(d, path) ==
    IF FileAt(d, path).exists /\ FileAt(d, path).readable
    THEN [raised |-> FALSE, df |-> FileAt(d, path).data]
    ELSE [raised |-> TRUE, df |-> None]

Loaded(df) == [ret |-> df, msgs |-> <<>>]

Failed(msg) == [ret |-> None, msgs |-> <<msg>>]

\* load_data(file_path): what it returns and the st.error messages it emits.
LoadData(file_path, d) ==
    IF EndsWith(file_path, ".csv") THEN
        LET r == Read(d, file_path) IN
        IF r.raised THEN Failed("error: Error loading data") ELSE Loaded(r.df)
    ELSE IF Exists(d, Replace(file_path, ".csv", ".sav")) THEN
        LET r == Read(d, Replace(file_path, ".csv", ".sav")) IN
        IF r.raised THEN Failed("error: Error loading data") ELSE Loaded(r.df)
    ELSE Failed("error: File not found")

----------------------------------------------------------------------------
\* Merge and composite score

RECURSIVE SetToSeq(_)
SetToSeq(S) ==
    IF S = {} THEN <<>>
    ELSE LET x == CHOOSE y \in S : TRUE IN <<x>> \o SetToSeq(S \ {x})

\* id_cols: the columns of both tables whose name starts with 'ID'
IdCols(left, right) ==
    {col \in left.columns \cap right.columns : StartsWith(col, "ID")}

\* The name a column of one side has in the merged table: key columns and
\* columns of one side only keep their name, a column of both sides that is
\* not a key gets the side's suffix.
MergedName(col, on, other, suffix) ==
    IF col \notin on /\ col \in other.columns THEN Append(col, suffix) ELSE col

MergedColumns(left, right, on) ==
    {MergedName(c, on, right, "_ach") : c \in left.columns}
        \cup {MergedName(c, on, left, "_bg") : c \in right.columns \ on}

MergedRow(left, right, on, l, r) ==
    [oc \in MergedColumns(left, right, on) |->
        IF \E c \in left.columns : MergedName(c, on, right, "_ach") = oc
        THEN l[CHOOSE c \in left.columns : MergedName(c, on, right, "_ach") = oc]
        ELSE r[CHOOSE c \in right.columns \ on : MergedName(c, on, left, "_bg") = oc]]

KeysMatch(on, l, r) == \A k \in on : l[k] = r[k]

RECURSIVE MatchesOf(_, _, _, _, _)
MatchesOf(left, right, on, l, j) ==
    IF j > Len(right.rows) THEN <<>>
    ELSE (IF KeysMatch(on, l, right.rows[j])
          THEN <<MergedRow(left, right, on, l, right.rows[j])>> ELSE <<>>)
         \o MatchesOf(left, right, on, l, j + 1)

RECURSIVE InnerRows(_, _, _, _)
InnerRows(left, right, on, i) ==
    IF i > Len(left.rows) THEN <<>>
    ELSE MatchesOf(left, right, on, left.rows[i], 1) \o InnerRows(left, right, on, i + 1)

\* A left join instead of the inner join: a left row without a partner is
\* kept, with missing values in the right table's columns.
RECURSIVE LeftRows(_, _, _, _)
LeftRows(left, right, on, i) ==
    IF i > Len(left.rows) THEN <<>>
    ELSE LET m == MatchesOf(left, right, on, left.rows[i], 1)
             alone == [oc \in MergedColumns(left, right, on) |->
                          IF \E c \in left.columns : MergedName(c, on, right, "_ach") = oc
                          THEN left.rows[i][CHOOSE c \in left.columns :
                                                MergedName(c, on, right, "_ach") = oc]
                          ELSE NaN]
         IN  (IF m = <<>> THEN <<alone>> ELSE m) \o LeftRows(left, right, on, i + 1)

MergeLeft(left, right, on) ==
    Table(MergedColumns(left, right, on), LeftRows(left, right, on, 1))

\* pd.merge(left, right, on=on, how="inner", suffixes=('_ach', '_bg'))
Merge(left, right, on) ==
    Table(MergedColumns(left, right, on), InnerRows(left, right, on, 1))

\* math_vars and math_vars_merged
MathVars(ach) == {col \in ach.columns : StartsWith(col, "BSMMAT")}

MathVarsMerged(ach) == {Append(var, "_ach") : var \in MathVars(ach)}

Cells(row, cols) == LET s == SetToSeq(cols) IN [i \in 1..Len(s) |-> row[s[i]]]

\* A row mean that does not skip missing values (skipna=False).
RowMeanNoSkip(row, cols) ==
    IF \E c \in cols : IsNaN(row[c]) THEN NaN ELSE SeriesMean(Cells(row, cols))

\* One row of df[cols].mean(axis=1)
RowMean(row, cols) == SeriesMean(Cells(row, cols))

\* df[name] = the row means of cols
WithScore(df, name, cols) ==
    Table(df.columns \cup {name},
          [i \in 1..Len(df.rows) |->
              [c \in df.columns \cup {name} |->
                  IF c = name THEN RowMean(df.rows[i], cols) ELSE df.rows[i][c]]])

----------------------------------------------------------------------------
\* Page routines.  A routine or a section of one yields the display elements
\* it emits, in order, and the exception that ended it ("" when it ran to its
\* end).  A chart call is modelled by the columns it reads: it raises when
\* one is not in its table and draws the figure otherwise.

Pages == {"Overview", "Student Factors", "Teacher Factors", "School Context"}

Ok(elems) == [out |-> elems, exc |-> ""]

Raise(elems, e) == [out |-> elems, exc |-> e]

\* a; b
Then(a, b) == IF a.exc # "" THEN a ELSE [out |-> a.out \o b.out, exc |-> b.exc]

NoMetrics == [shown |-> FALSE, n |-> 0, mean |-> [nan |-> TRUE, tenths |-> 0],
              median |-> [nan |-> TRUE, tenths |-> 0]]

NoTable == Table({}, <<>>)

\* f"{x:.1f}": "nan" for a missing value, else the value rounded to one
\* decimal (in tenths), a tie going to the even digit.
FormatTenths(c) ==
    IF IsNaN(c) THEN [nan |-> TRUE, tenths |-> 0]
    ELSE LET q == (10 * c[1]) \div c[2]
             r == (10 * c[1]) % c[2]
         IN  [nan |-> FALSE,
              tenths |-> IF 2 * r < c[2] THEN q
                         ELSE IF 2 * r > c[2] THEN q + 1
                         ELSE IF q % 2 = 0 THEN q ELSE q + 1]

\* The three st.metric values of the Overview page.
OverviewMetrics(sd) ==
    [shown |-> TRUE, n |-> Len(sd.rows),
     mean |-> FormatTenths(SeriesMean(Column(sd, math_score))),
     median |-> FormatTenths(SeriesMedian(Column(sd, math_score)))]

Overview(sd) ==
    IF sd.isNone THEN Raise(<<"title: Mathematics Performance Overview">>, "TypeError")
    ELSE IF math_score \notin sd.columns
    THEN Raise(<<"title: Mathematics Performance Overview",
                 "metric: Number of Students">>, "KeyError")
    ELSE Ok(<<"title: Mathematics Performance Overview",
              "metric: Number of Students",
              "metric: Average Math Score",
              "metric: Median Math Score",
              "subheader: Distribution of Math Scores",
              "pyplot: Distribution of Mathematics Scores with TIMSS Benchmarks",
              "markdown: TIMSS Benchmarks">>)

\* gender_var
GenderVarNoFallback(sd) == BSBG01

GenderVar(sd) == IF BSBG01 \in sd.columns THEN BSBG01 ELSE ITSEX

\* The group keys of a groupby: the distinct non-missing values, ascending.
Groups(df, col) == Sorted(SetToSeq({df.rows[i][col] : i \in 1..Len(df.rows)} \ {NaN}))

\* The rows of one group
GroupOf(df, col, key) ==
    Table(df.columns, Pick(df.rows, {i \in 1..Len(df.rows) : df.rows[i][col] = key}, 1))

GenderLabel == <<"Gender">>
MeanLabel == <<"Mean Score">>
MedianLabel == <<"Median Score">>
CountLabel == <<"Count">>

\* one group's count of the 'count' aggregate
GroupCountSize(df, col, key) == Num(SeriesSize(Column(GroupOf(df, col, key), math_score)))

GroupCount(df, col, key) == Num(SeriesCount(Column(GroupOf(df, col, key), math_score)))

\* gender_stats: groupby(gender_var)['math_score'].agg(mean, median, std,
\* count) with its columns renamed; the standard deviation column is left out.
GenderStats(gender_data, gender_var) ==
    LET keys == Groups(gender_data, gender_var) IN
    Table({GenderLabel, MeanLabel, MedianLabel, CountLabel},
          [g \in 1..Len(keys) |->
              LET scores == Column(GroupOf(gender_data, gender_var, keys[g]), math_score) IN
              [c \in {GenderLabel, MeanLabel, MedianLabel, CountLabel} |->
                  IF c = GenderLabel THEN keys[g]
                  ELSE IF c = MeanLabel THEN SeriesMean(scores)
                  ELSE IF c = MedianLabel THEN SeriesMedian(scores)
                  ELSE GroupCount(gender_data, gender_var, keys[g])]])

GenderSection(sd) ==
    IF GenderVar(sd) \in sd.columns THEN
        IF math_score \notin sd.columns
        THEN Raise(<<"subheader: Gender and Mathematics Performance",
                     "pyplot: Gender Distribution">>, "ValueError")
        ELSE Ok(<<"subheader: Gender and Mathematics Performance",
                  "pyplot: Gender Distribution",
                  "pyplot: Mathematics Performance by Gender",
                  "dataframe: gender_stats">>)
    ELSE Ok(<<"subheader: Gender and Mathematics Performance",
              "warning: Gender variable not found in the dataset">>)

BooksSection(sd) ==
    IF BSBG04 \in sd.columns THEN
        IF math_score \notin sd.columns
        THEN Raise(<<"subheader: Home Educational Resources">>, "ValueError")
        ELSE Ok(<<"subheader: Home Educational Resources",
                  "pyplot: Mathematics Performance by Books at Home",
                  "pyplot: Average Mathematics Score by Books at Home">>)
    ELSE Ok(<<"subheader: Home Educational Resources",
              "warning: Books at home variable not found in the dataset">>)

\* One pass of the loop over attitude_vars
AttitudeSection(sd, var, chart, warning) ==
    IF var \in sd.columns THEN
        IF math_score \notin sd.columns THEN Raise(<<>>, "ValueError") ELSE Ok(<<chart>>)
    ELSE Ok(<<warning>>)

StudentFactors(sd) ==
    IF sd.isNone THEN Raise(<<"title: Student Background and Attitudes",
                              "subheader: Gender and Mathematics Performance">>,
                            "AttributeError")
    ELSE
    Then(Ok(<<"title: Student Background and Attitudes">>),
    Then(GenderSection(sd),
    Then(BooksSection(sd),
    Then(Ok(<<"subheader: Student Attitudes Toward Mathematics">>),
    Then(AttitudeSection(sd, BSBGSLM,
            "pyplot: Mathematics Performance by Student Likes Mathematics",
            "warning: Student Likes Mathematics variable not found in the dataset"),
         AttitudeSection(sd, BSBGSCM,
            "pyplot: Mathematics Performance by Student Confident in Mathematics",
            "warning: Student Confident in Mathematics variable not found in the dataset"))))))

\* A value_counts section of the Teacher Factors and School Context pages
CountsSection(df, var, chart, warning) ==
    IF var \in df.columns THEN Ok(<<chart>>) ELSE Ok(<<warning>>)

TeacherFactors(td) ==
    IF td.isNone THEN Raise(<<"title: Teacher and Instruction Factors",
                              "subheader: Teacher Demographics">>, "TypeError")
    ELSE
    Then(Ok(<<"title: Teacher and Instruction Factors",
              "subheader: Teacher Demographics",
              "write: Number of teachers">>),
    Then(CountsSection(td, BTBG01,
            "pyplot: Distribution of Teaching Experience",
            "warning: Teacher experience variable not found in the dataset"),
    Then(Ok(<<"subheader: Teacher Preparation and Professional Development">>),
         CountsSection(td, BTBG04,
            "pyplot: Teacher Education Levels",
            "warning: Teacher education variable not found in the dataset"))))

SchoolContext(scd) ==
    IF scd.isNone THEN Raise(<<"title: School Context Factors",
                               "subheader: School Demographics">>, "TypeError")
    ELSE
    Then(Ok(<<"title: School Context Factors",
              "subheader: School Demographics",
              "write: Number of schools">>),
    Then(CountsSection(scd, BCBG05A,
            "pyplot: Distribution of Schools by Location",
            "warning: School location variable not found in the dataset"),
    Then(Ok(<<"subheader: School Composition and Climate">>),
    Then(CountsSection(scd, BCBG03A,
            "pyplot: Schools by Percentage of Economically Disadvantaged Students",
            "warning: Economic disadvantage variable not found in the dataset"),
         CountsSection(scd, BCBGEAS,
            "pyplot: School Emphasis on Academic Success",
            "warning: School emphasis variable not found in the dataset")))))

----------------------------------------------------------------------------
\* The script, top to bottom.  pc is the place the run has reached; an
\* unhandled exception ends the run at "aborted" with its name in exc.

\* gender_data
GenderData(sd) == DropNa(sd, GenderVar(sd))

\* Lines 9-43: page set-up, sidebar, and the student table or the raw tables.
LoadStudent ==
    /\ pc = "load_student"
    /\ IF Exists(disk, StudentCsv) THEN
           LET r == LoadData(StudentCsv, disk) IN
           /\ student_data' = r.ret
           /\ out' = <<"header: TIMSS 2023 Mathematics Dashboard",
                       "sidebar.radio: Select a Page">> \o r.msgs
           /\ pc' = "load_tables"
           /\ UNCHANGED <<df_ach, df_bg>>
       ELSE
           LET a == LoadData(AchSav, disk)
               b == LoadData(BgSav, disk)
           IN  /\ df_ach' = a.ret
               /\ df_bg' = b.ret
               /\ out' = <<"header: TIMSS 2023 Mathematics Dashboard",
                           "sidebar.radio: Select a Page",
                           "sidebar.warning: Processed data not found, loading raw data...">>
                         \o a.msgs \o b.msgs
               /\ pc' = "merge"
               /\ UNCHANGED student_data
    /\ UNCHANGED <<disk, page, teacher_data, school_data, metrics, gender_stats, exc, ret, called>>

\* Lines 45-56: the join keys and the inner join.  df_ach.columns and
\* df_bg.columns raise AttributeError on an absent table.
MergeStudent ==
    /\ pc = "merge"
    /\ IF df_ach.isNone \/ df_bg.isNone THEN
           /\ pc' = "aborted"
           /\ exc' = "AttributeError"
           /\ UNCHANGED student_data
       ELSE
           /\ student_data' = Merge(df_ach, df_bg, IdCols(df_ach, df_bg))
           /\ pc' = "score"
           /\ UNCHANGED exc
    /\ UNCHANGED <<disk, page, df_ach, df_bg, teacher_data, school_data, out, metrics,
                   gender_stats, ret, called>>

\* Lines 58-61: the composite score.  Selecting a column that the merged
\* table does not have raises KeyError.
ScoreStudent ==
    /\ pc = "score"
    /\ IF MathVarsMerged(df_ach) \subseteq student_data.columns THEN
           /\ student_data' = WithScore(student_data, math_score, MathVarsMerged(df_ach))
           /\ pc' = "load_tables"
           /\ UNCHANGED exc
       ELSE
           /\ pc' = "aborted"
           /\ exc' = "KeyError"
           /\ UNCHANGED student_data
    /\ UNCHANGED <<disk, page, df_ach, df_bg, teacher_data, school_data, out, metrics,
                   gender_stats, ret, called>>

\* Lines 63-72: the teacher and school tables.
LoadTables ==
    /\ pc = "load_tables"
    /\ LET t == IF Exists(disk, TeacherCsv) THEN LoadData(TeacherCsv, disk)
                ELSE LoadData(TeacherSav, disk)
           s == IF Exists(disk, SchoolCsv) THEN LoadData(SchoolCsv, disk)
                ELSE LoadData(SchoolSav, disk)
       IN  /\ teacher_data' = t.ret
           /\ school_data' = s.ret
           /\ out' = out \o t.msgs \o s.msgs
    /\ pc' = "dispatch"
    /\ UNCHANGED <<disk, page, df_ach, df_bg, student_data, metrics, gender_stats, exc, ret, called>>

\* What a page routine leaves behind.
Routine(r) ==
    /\ out' = out \o r.out
    /\ exc' = r.exc
    /\ pc' = IF r.exc = "" THEN "footer" ELSE "aborted"

\* The routine the if / elif chain of lines 75, 116, 210, 256 selects.
Selected(name) == page = name

OverviewPage ==
    /\ pc = "dispatch"
    /\ Selected("Overview")
    /\ Routine(Overview(student_data))
    /\ metrics' = IF Overview(student_data).exc = "" THEN OverviewMetrics(student_data)
                  ELSE NoMetrics
    /\ UNCHANGED <<disk, page, df_ach, df_bg, student_data, teacher_data, school_data,
                   gender_stats, ret, called>>

StudentFactorsPage ==
    /\ pc = "dispatch"
    /\ Selected("Student Factors")
    /\ Routine(StudentFactors(student_data))
    /\ gender_stats' =
          IF "dataframe: gender_stats" \in Range(StudentFactors(student_data).out)
          THEN GenderStats(GenderData(student_data), GenderVar(student_data))
          ELSE NoTable
    /\ UNCHANGED <<disk, page, df_ach, df_bg, student_data, teacher_data, school_data,
                   metrics, ret, called>>

TeacherFactorsPage ==
    /\ pc = "dispatch"
    /\ Selected("Teacher Factors")
    /\ Routine(TeacherFactors(teacher_data))
    /\ UNCHANGED <<disk, page, df_ach, df_bg, student_data, teacher_data, school_data,
                   metrics, gender_stats, ret, called>>

SchoolContextPage ==
    /\ pc = "dispatch"
    /\ Selected("School Context")
    /\ Routine(SchoolContext(school_data))
    /\ UNCHANGED <<disk, page, df_ach, df_bg, student_data, teacher_data, school_data,
                   metrics, gender_stats, ret, called>>

\* Lines 320-323
Footer ==
    /\ pc = "footer"
    /\ out' = out \o <<"sidebar.markdown: ---",
                       "sidebar.info: Dashboard created for Data Mining module",
                       "sidebar.info: Data source: TIMSS 2023 Ireland Grade 8 dataset">>
    /\ pc' = "done"
    /\ UNCHANGED <<disk, page, df_ach, df_bg, student_data, teacher_data, school_data,
                   metrics, gender_stats, exc, ret, called>>

\* A sidebar selection: the framework runs the script again from its first
\* line with nothing of the last run but the selection.
Rerun(selection) ==
    /\ pc \in {"done", "aborted"}
    /\ page' = selection
    /\ pc' = "load_student"
    /\ df_ach' = None
    /\ df_bg' = None
    /\ student_data' = None
    /\ teacher_data' = None
    /\ school_data' = None
    /\ out' = <<>>
    /\ metrics' = NoMetrics
    /\ gender_stats' = NoTable
    /\ exc' = ""
    /\ UNCHANGED <<disk, ret, called>>

\* One call of load_data on its own.
CallLoadData(file_path) ==
    /\ pc = "call"
    /\ called' = file_path
    /\ ret' = LoadData(file_path, disk).ret
    /\ out' = LoadData(file_path, disk).msgs
    /\ pc' = "returned"
    /\ UNCHANGED <<disk, page, df_ach, df_bg, student_data, teacher_data, school_data,
                   metrics, gender_stats, exc>>

----------------------------------------------------------------------------
\* Input tables

\* The tables of at most MaxRows rows over a set of rows
TablesOver(cols, rowSet) ==
    {Table(cols, rows) : rows \in UNION {[1..n -> rowSet] : n \in 0..MaxRows}}

Items == {BSMMAT01, BSMMAT02}

\* Achievement tables: two identifiers (one of them only here), the sex
\* column both raw files carry, and a choice of item-score columns.
AchRows(items) ==
    {[c \in {IDSTUD, IDBOOK, ITSEX} \cup items |->
        IF c = IDSTUD THEN Num(id)
        ELSE IF c = BSMMAT01 THEN s1
        ELSE IF c = BSMMAT02 THEN s2
        ELSE Num(1)] :
     id \in {1, 2}, s1 \in {NaN, Num(500)}, s2 \in {NaN, Num(520)}}

AchTables == UNION {TablesOver({IDSTUD, IDBOOK, ITSEX} \cup items, AchRows(items)) :
                    items \in SUBSET Items}

\* Background tables: the student identifier, sex, gender, and a choice of
\* item-score columns of their own (other values than the achievement file's).
BgRows(items) ==
    {[c \in {IDSTUD, ITSEX, BSBG01} \cup items |->
        IF c = IDSTUD THEN Num(id)
        ELSE IF c \in items THEN Num(400)
        ELSE Num(2)] :
     id \in {1, 2}}

BgTables == UNION {TablesOver({IDSTUD, ITSEX, BSBG01} \cup items, BgRows(items)) :
                   items \in SUBSET Items}

\* The scenario of the specification: achievement {ID1: [1, 2], BSMMAT01:
\* [500, 600], BSMMAT02: [520, 580]} and background {ID1: [1, 2], BSBG01: [1, 2]}.
ID1 == <<"ID", "1">>

ScenarioAch ==
    Table({ID1, BSMMAT01, BSMMAT02},
          <<[c \in {ID1, BSMMAT01, BSMMAT02} |->
                IF c = ID1 THEN Num(1) ELSE IF c = BSMMAT01 THEN Num(500) ELSE Num(520)],
            [c \in {ID1, BSMMAT01, BSMMAT02} |->
                IF c = ID1 THEN Num(2) ELSE IF c = BSMMAT01 THEN Num(600) ELSE Num(580)]>>)

ScenarioBg ==
    Table({ID1, BSBG01},
          <<[c \in {ID1, BSBG01} |-> Num(1)], [c \in {ID1, BSBG01} |-> Num(2)]>>)

\* The same scores in raw files that both carry the item-score columns.
ScenarioBgWithItems ==
    Table({ID1, BSBG01, BSMMAT01, BSMMAT02},
          <<[c \in {ID1, BSBG01, BSMMAT01, BSMMAT02} |->
                IF c \in Items THEN Num(400) ELSE Num(1)],
            [c \in {ID1, BSBG01, BSMMAT01, BSMMAT02} |->
                IF c \in Items THEN Num(400) ELSE Num(2)]>>)

\* Student tables of the pages: scores only, every choice of the section
\* variables with and without the score, and gender against score.
ScoreTables ==
    TablesOver({IDSTUD, math_score},
               {[c \in {IDSTUD, math_score} |-> IF c = IDSTUD THEN Num(1) ELSE s] :
                s \in {NaN, Num(500), Num(515), Num(600)}})

SectionVars == {BSBG01, ITSEX, BSBG04, BSBGSLM, BSBGSCM}

SectionTables ==
    {Table({IDSTUD} \cup present \cup score,
           <<[c \in {IDSTUD} \cup present \cup score |->
                 IF c = math_score THEN Num(500) ELSE Num(1)],
             [c \in {IDSTUD} \cup present \cup score |->
                 IF c = math_score THEN Num(600) ELSE IF c = ITSEX THEN Num(1) ELSE Num(2)]>>) :
     present \in SUBSET SectionVars, score \in {{}, {math_score}}}

GenderTables ==
    UNION {TablesOver({IDSTUD, g, math_score},
                      {[c \in {IDSTUD, g, math_score} |->
                           IF c = g THEN sex ELSE IF c = math_score THEN s ELSE Num(1)] :
                       sex \in {NaN, Num(1), Num(2)}, s \in {NaN, Num(500), Num(600)}}) :
           g \in {BSBG01, ITSEX}}

OneRow(cols) == Table(cols, <<[c \in cols |-> Num(1)]>>)

TeacherTables == {OneRow({<<"ID", "TEACH">>} \cup present) : present \in SUBSET {BTBG01, BTBG04}}

SchoolTables ==
    {OneRow({<<"ID", "SCHOOL">>} \cup present) : present \in SUBSET {BCBG05A, BCBG03A, BCBGEAS}}

AllTeacher == OneRow({<<"ID", "TEACH">>, BTBG01, BTBG04})

AllSchool == OneRow({<<"ID", "SCHOOL">>, BCBG05A, BCBG03A, BCBGEAS})

\* A loaded table as the file it was read from
AsFile(t) == IF t.isNone THEN Corrupt ELSE File(t)

\* The disk with the processed files
ProcessedDisk(sd, td, scd) ==
    [p \in Paths |-> IF p = StudentCsv THEN AsFile(sd)
                     ELSE IF p = TeacherCsv THEN AsFile(td)
                     ELSE IF p = SchoolCsv THEN AsFile(scd)
                     ELSE Absent]

\* The disk with the raw files only
RawDisk(ach, bg) ==
    [p \in Paths |-> IF p = AchSav THEN File(ach)
                     ELSE IF p = BgSav THEN File(bg)
                     ELSE IF p = TeacherSav THEN File(AllTeacher)
                     ELSE IF p = SchoolSav THEN File(AllSchool)
                     ELSE Absent]

\* The state a run starts in
Start(d, selection, at) ==
    /\ disk = d
    /\ page = selection
    /\ pc = at
    /\ df_ach = None
    /\ df_bg = None
    /\ student_data = None
    /\ teacher_data = None
    /\ school_data = None
    /\ out = <<>>
    /\ metrics = NoMetrics
    /\ gender_stats = NoTable
    /\ exc = ""
    /\ ret = None
    /\ called = <<>>

----------------------------------------------------------------------------
\* Spec: whole render cycles over every choice of which files exist, with a
\* new sidebar selection after each.

CycleDisk(sc, ach, bg, tc, ts, cc, cs) ==
    [p \in Paths |-> IF p = StudentCsv THEN sc
                     ELSE IF p = AchSav THEN ach
                     ELSE IF p = BgSav THEN bg
                     ELSE IF p = TeacherCsv THEN tc
                     ELSE IF p = TeacherSav THEN ts
                     ELSE IF p = SchoolCsv THEN cc
                     ELSE cs]

Init ==
    \E sc \in {Absent, Corrupt, File(OneRow({IDSTUD, BSBG01, math_score}))},
       ach \in {Absent, File(ScenarioAch)},
       bg \in {Absent, File(ScenarioBg), File(ScenarioBgWithItems)},
       tc \in {Absent, File(AllTeacher)},
       ts \in {Absent, File(AllTeacher)},
       cc \in {Absent, File(AllSchool)},
       cs \in {Absent, File(AllSchool)},
       selection \in Pages :
        Start(CycleDisk(sc, ach, bg, tc, ts, cc, cs), selection, "load_student")

Next ==
    \/ LoadStudent
    \/ MergeStudent
    \/ ScoreStudent
    \/ LoadTables
    \/ OverviewPage
    \/ StudentFactorsPage
    \/ TeacherFactorsPage
    \/ SchoolContextPage
    \/ Footer
    \/ \E selection \in Pages : Rerun(selection)

Spec == Init /\ [][Next]_vars

\* SpecMerge: the raw-data path over generated achievement and background
\* tables, up to the composite score.

InitMerge ==
    \E ach \in AchTables \cup {ScenarioAch},
       bg \in BgTables \cup {ScenarioBg, ScenarioBgWithItems} :
        Start(RawDisk(ach, bg), "Overview", "load_student")

NextMerge ==
    \/ LoadStudent
    \/ MergeStudent
    \/ ScoreStudent

SpecMerge == InitMerge /\ [][NextMerge]_vars

\* SpecPages: the render cycle on the processed files, over generated tables
\* for the selected page.

InitPages ==
    \/ \E sd \in ScoreTables \cup {None} :
          Start(ProcessedDisk(sd, AllTeacher, AllSchool), "Overview", "load_student")
    \/ \E sd \in SectionTables \cup GenderTables :
          Start(ProcessedDisk(sd, AllTeacher, AllSchool), "Student Factors", "load_student")
    \/ \E td \in TeacherTables :
          Start(ProcessedDisk(OneRow({IDSTUD, math_score}), td, AllSchool),
                "Teacher Factors", "load_student")
    \/ \E scd \in SchoolTables :
          Start(ProcessedDisk(OneRow({IDSTUD, math_score}), AllTeacher, scd),
                "School Context", "load_student")

NextPages ==
    \/ LoadStudent
    \/ LoadTables
    \/ OverviewPage
    \/ StudentFactorsPage
    \/ TeacherFactorsPage
    \/ SchoolContextPage
    \/ Footer

SpecPages == InitPages /\ [][NextPages]_vars

\* SpecLoad: load_data called on a path, over every state of a .csv file and
\* of the .sav file of the same name.

LoadPaths ==
    {TeacherCsv, Replace(TeacherCsv, ".csv", ".sav"),
     SchoolCsv, Replace(SchoolCsv, ".csv", ".sav")}

\* What each of these files holds when it exists
Held(path) == OneRow({path})

InitLoad ==
    \E d \in [LoadPaths -> {"absent", "corrupt", "file"}] :
        Start([p \in LoadPaths |-> IF d[p] = "absent" THEN Absent
                                   ELSE IF d[p] = "corrupt" THEN Corrupt
                                   ELSE File(Held(p))],
              "Overview", "call")

NextLoad == \E file_path \in LoadPaths : CallLoadData(file_path)

SpecLoad == InitLoad /\ [][NextLoad]_vars

----------------------------------------------------------------------------
\* Properties

Min(a, b) == IF a < b THEN a ELSE b

RECURSIVE SumOver(_, _)
SumOver(S, row) ==
    IF S = {} THEN 0
    ELSE LET c == CHOOSE x \in S : TRUE IN row[c][1] + SumOver(S \ {c}, row)

RowIndexes(df) == 1..Len(df.rows)

\* The merge-and-score step of the raw-data path is over.
ScoreStepOver ==
    /\ pc \in {"load_tables", "aborted"}
    /\ ~df_ach.isNone
    /\ ~df_bg.isNone

\* A row's math_score is the arithmetic mean of its values in cols.
IsMeanOf(row, cols) ==
    /\ ~IsNaN(row[math_score])
    /\ row[math_score][1] * Cardinality(cols) = SumOver(cols, row) * row[math_score][2]

\* C1: on the raw-data path, for tables that share an ID column and whose
\* BSMMAT columns are in the achievement table only, the merge-and-score step
\* ends without an error and every merged row's math_score is the arithmetic
\* mean of the row's item scores; the scenario tables yield [510, 590].
C1_MergeAndScore ==
    (/\ ScoreStepOver
     /\ IdCols(df_ach, df_bg) # {}
     /\ MathVars(df_ach) # {}
     /\ MathVars(df_ach) \cap df_bg.columns = {}
     /\ \A i \in RowIndexes(df_ach) : \A c \in MathVars(df_ach) : ~IsNaN(df_ach.rows[i][c]))
    => /\ pc = "load_tables"
       /\ math_score \in student_data.columns
       /\ \A i \in RowIndexes(student_data) :
             IsMeanOf(student_data.rows[i], MathVars(df_ach))
       /\ (df_ach = ScenarioAch /\ df_bg = ScenarioBg
             => Column(student_data, math_score) = <<Num(510), Num(590)>>)

\* The item-score values of a merged row that are not missing
Present(row) == {c \in MathVarsMerged(df_ach) : ~IsNaN(row[c])}

Identifiers(df) == {c \in df.columns : StartsWith(c, "ID")}

\* A merged row carries the identifier values of an achievement row and of a
\* background row.
FromAPair(row) ==
    \E i \in RowIndexes(df_ach), j \in RowIndexes(df_bg) :
        /\ \A c \in Identifiers(df_ach) : row[c] = df_ach.rows[i][c]
        /\ \A c \in Identifiers(df_bg) : row[c] = df_bg.rows[j][c]

\* No two rows of the table agree on all the join keys
KeysUnique(df, on) ==
    \A i, j \in RowIndexes(df) : i # j => ~KeysMatch(on, df.rows[i], df.rows[j])

\* C3 as stated: the inner join of tables sharing an ID column, repeated key
\* values included, has at most min(achievement rows, background rows) rows,
\* each carrying the identifiers of an achievement and a background row.
C3_Original ==
    (pc = "score" /\ IdCols(df_ach, df_bg) # {}) =>
        /\ Len(student_data.rows) <= Min(Len(df_ach.rows), Len(df_bg.rows))
        /\ \A i \in RowIndexes(student_data) : FromAPair(student_data.rows[i])

\* C3, amended: each merged row carries the identifiers of an achievement and
\* a background row; the join has at most (achievement rows * background
\* rows) rows, and at most min(achievement rows, background rows) when no
\* key value is repeated within either table.
C3_Amended ==
    (pc = "score" /\ IdCols(df_ach, df_bg) # {}) =>
        /\ Len(student_data.rows) <= Len(df_ach.rows) * Len(df_bg.rows)
        /\ (KeysUnique(df_ach, IdCols(df_ach, df_bg))
              /\ KeysUnique(df_bg, IdCols(df_ach, df_bg))
              => Len(student_data.rows) <= Min(Len(df_ach.rows), Len(df_bg.rows)))
        /\ \A i \in RowIndexes(student_data) : FromAPair(student_data.rows[i])
        /\ \A c \in Identifiers(df_ach) \cup Identifiers(df_bg) : c \in student_data.columns

\* A join of a two-row table with unrepeated keys that drops a row.
C3_Witness ==
    /\ pc = "score"
    /\ KeysUnique(df_ach, IdCols(df_ach, df_bg))
    /\ KeysUnique(df_bg, IdCols(df_ach, df_bg))
    /\ Len(df_ach.rows) = 2
    /\ Len(df_bg.rows) = 1
    /\ Len(student_data.rows) = 1

StatsShown == "dataframe: gender_stats" \in Range(out)

RECURSIVE CountSum(_, _)
CountSum(stats, i) ==
    IF i > Len(stats.rows) THEN 0 ELSE stats.rows[i][CountLabel][1] + CountSum(stats, i + 1)

\* C4 as stated: the Count column of the gender table sums to the number of
\* student rows whose gender is not missing.
C4_Original ==
    StatsShown =>
        CountSum(gender_stats, 1) =
            Cardinality({i \in RowIndexes(student_data) :
                            ~IsNaN(student_data.rows[i][GenderVar(student_data)])})

\* C4, amended: the Count column of the gender table sums to the number of
\* student rows in which neither the gender nor math_score is missing.
C4_Amended ==
    StatsShown =>
        CountSum(gender_stats, 1) =
            Cardinality({i \in RowIndexes(student_data) :
                            /\ ~IsNaN(student_data.rows[i][GenderVar(student_data)])
                            /\ ~IsNaN(student_data.rows[i][math_score])})

\* A gender table of two groups over two rows with a gender, one of them
\* without a score.
C4_Witness ==
    /\ StatsShown
    /\ Len(gender_stats.rows) = 2
    /\ Len(student_data.rows) = 2
    /\ \A i \in RowIndexes(student_data) :
          ~IsNaN(student_data.rows[i][GenderVar(student_data)])
    /\ \E i \in RowIndexes(student_data) : IsNaN(student_data.rows[i][math_score])
    /\ CountSum(gender_stats, 1) = 1

\* The sections of the pages: the variables a section can be drawn from, the
\* warning it shows without them, and the charts and tables it shows with one.
Section(candidates, warning, shown) ==
    [vars |-> candidates, warning |-> warning, shown |-> shown]

StudentSections ==
    <<Section({BSBG01, ITSEX}, "warning: Gender variable not found in the dataset",
              {"pyplot: Gender Distribution", "pyplot: Mathematics Performance by Gender",
               "dataframe: gender_stats"}),
      Section({BSBG04}, "warning: Books at home variable not found in the dataset",
              {"pyplot: Mathematics Performance by Books at Home",
               "pyplot: Average Mathematics Score by Books at Home"}),
      Section({BSBGSLM},
              "warning: Student Likes Mathematics variable not found in the dataset",
              {"pyplot: Mathematics Performance by Student Likes Mathematics"}),
      Section({BSBGSCM},
              "warning: Student Confident in Mathematics variable not found in the dataset",
              {"pyplot: Mathematics Performance by Student Confident in Mathematics"})>>

TeacherSections ==
    <<Section({BTBG01}, "warning: Teacher experience variable not found in the dataset",
              {"pyplot: Distribution of Teaching Experience"}),
      Section({BTBG04}, "warning: Teacher education variable not found in the dataset",
              {"pyplot: Teacher Education Levels"})>>

SchoolSections ==
    <<Section({BCBG05A}, "warning: School location variable not found in the dataset",
              {"pyplot: Distribution of Schools by Location"}),
      Section({BCBG03A}, "warning: Economic disadvantage variable not found in the dataset",
              {"pyplot: Schools by Percentage of Economically Disadvantaged Students"}),
      Section({BCBGEAS}, "warning: School emphasis variable not found in the dataset",
              {"pyplot: School Emphasis on Academic Success"})>>

Places(elems) == {i \in 1..Len(out) : out[i] \in elems}

\* The section shows its warning once and nothing else when the table has
\* none of its variables, and all its charts and no warning when it has one.
SectionRendered(df, s) ==
    IF s.vars \cap df.columns = {}
    THEN Cardinality(Places({s.warning})) = 1 /\ Places(s.shown) = {}
    ELSE Places({s.warning}) = {} /\ \A e \in s.shown : Cardinality(Places({e})) = 1

\* Every section is rendered, each after the one before it.
SectionsRendered(df, sections) ==
    /\ \A k \in 1..Len(sections) : SectionRendered(df, sections[k])
    /\ \A k \in 1..(Len(sections) - 1) :
          \A i \in Places(sections[k].shown \cup {sections[k].warning}),
             j \in Places(sections[k + 1].shown \cup {sections[k + 1].warning}) : i < j

\* The routine of the selected page has ended.
PageOver == pc \in {"footer", "done", "aborted"}

\* The values of a column that are not missing
ValuesOf(df, col) == {df.rows[i][col] : i \in RowIndexes(df)} \ {NaN}

\* C5: on the Student Factors, Teacher Factors and School Context pages, for
\* every choice of the section variables missing from the page's loaded
\* table (the student table carrying math_score), a section without its
\* variable shows exactly its warning, and every section, the later ones
\* included, is rendered; the gender section groups by BSBG01 when the table
\* has it, else by ITSEX, and warns only when it has neither.
C5_MissingVariableWarns ==
    /\ (/\ PageOver
        /\ page = "Student Factors"
        /\ ~student_data.isNone
        /\ math_score \in student_data.columns)
       => /\ pc # "aborted"
          /\ SectionsRendered(student_data, StudentSections)
          /\ BSBG01 \in student_data.columns
                => {gender_stats.rows[g][GenderLabel] : g \in RowIndexes(gender_stats)}
                       = ValuesOf(student_data, BSBG01)
          /\ BSBG01 \notin student_data.columns /\ ITSEX \in student_data.columns
                => {gender_stats.rows[g][GenderLabel] : g \in RowIndexes(gender_stats)}
                       = ValuesOf(student_data, ITSEX)
    /\ (PageOver /\ page = "Teacher Factors" /\ ~teacher_data.isNone)
       => pc # "aborted" /\ SectionsRendered(teacher_data, TeacherSections)
    /\ (PageOver /\ page = "School Context" /\ ~school_data.isNone)
       => pc # "aborted" /\ SectionsRendered(school_data, SchoolSections)

\* A Student Factors page drawn from ITSEX, without the books variable and
\* with an attitude variable after it.
C5_Witness ==
    /\ pc = "done"
    /\ page = "Student Factors"
    /\ student_data.columns \cap SectionVars = {ITSEX, BSBGSCM}
    /\ math_score \in student_data.columns
    /\ Places({"warning: Books at home variable not found in the dataset"}) # {}
    /\ Places({"pyplot: Mathematics Performance by Student Confident in Mathematics"}) # {}
    /\ Len(gender_stats.rows) = 1

\* C6: load_data on a .csv path returns the CSV file's table when the file
\* exists; returns the table of the .sav file of the same name when the CSV
\* file does not exist and the .sav file does; and reports an error and
\* returns None only when neither exists.  It never raises.
C6_LoadDataFallsBack ==
    (pc = "returned" /\ EndsWith(called, ".csv")) =>
        LET csv == FileAt(disk, called)
            sav == FileAt(disk, Replace(called, ".csv", ".sav"))
        IN  /\ exc = ""
            /\ csv.exists /\ csv.readable => ret = csv.data /\ out = <<>>
            /\ ~csv.exists /\ sav.exists /\ sav.readable => ret = sav.data /\ out = <<>>
            /\ ~csv.exists /\ ~sav.exists => ret = None /\ out # <<>>

\* C7: the Overview page on a student table of no rows ends without an
\* error, with the student count 0 and the average and median math score
\* shown as undefined ("nan").
C7_EmptyOverview ==
    (/\ PageOver
     /\ page = "Overview"
     /\ ~student_data.isNone
     /\ math_score \in student_data.columns
     /\ Len(student_data.rows) = 0)
    => /\ pc # "aborted"
       /\ exc = ""
       /\ metrics.shown
       /\ metrics.n = 0
       /\ metrics.mean.nan
       /\ metrics.median.nan
       /\ Places({"pyplot: Distribution of Mathematics Scores with TIMSS Benchmarks"}) # {}

\* A finished Overview of a student table of no rows.
C7_Witness ==
    /\ pc = "done"
    /\ page = "Overview"
    /\ ~student_data.isNone
    /\ student_data.columns = {IDSTUD, math_score}
    /\ Len(student_data.rows) = 0
    /\ metrics.shown

\* The title each page routine starts with
Title(name) ==
    IF name = "Overview" THEN "title: Mathematics Performance Overview"
    ELSE IF name = "Student Factors" THEN "title: Student Background and Attitudes"
    ELSE IF name = "Teacher Factors" THEN "title: Teacher and Instruction Factors"
    ELSE "title: School Context Factors"

\* The page routines that ran in this render cycle
RoutinesRun == {name \in Pages : Places({Title(name)}) # {}}

\* C8: whatever the sidebar selections so far, a render cycle has run exactly
\* one page routine when it ends, the selected page's.
C8_OneRoutinePerCycle ==
    pc \in {"done", "aborted"} => RoutinesRun = {page}

\* The exceptions of an aggregation over a column that is not there
AggregationErrors == {"KeyError", "ValueError"}

\* C9: only an aggregation error aborts a render cycle; when a file is not
\* found or unreadable the cycle still runs to its end, footer included.
C9_MissingFileNotFatal ==
    /\ pc = "aborted" => exc \in AggregationErrors
    /\ (pc \in {"done", "aborted"} /\ exc \notin AggregationErrors)
          => Places({"sidebar.info: Dashboard created for Data Mining module"}) # {}

\* C10: on the raw-data path, an achievement table without BSMMAT columns
\* makes the composite score step fail with an error, not give every row a
\* missing math_score.
C10_NoItemColumnsFailsLoudly ==
    (ScoreStepOver /\ IdCols(df_ach, df_bg) # {} /\ MathVars(df_ach) = {})
        => pc = "aborted"

====
